---- MODULE Spec2Model ----
(***************************************************************************)
(* A model of src/main.py: the bar recognizer (class NewMiniGame), the box *)
(* tracker and the main loop of class FivemAutoFish.                       *)
(*                                                                         *)
(* A frame is modelled by what the code measures on it: the segmented bar  *)
(* area, the best match score of each numeral template (in hundredths),    *)
(* the numeral detections and shape candidates of the cropped region, and  *)
(* the dominant colour of each box.  Ratios of areas are compared as       *)
(* cross-multiplied integers, which agrees with the float comparison for   *)
(* the small integers used here.                                           *)
(***************************************************************************)
EXTENDS Integers, Sequences, FiniteSets, TLC

VARIABLES
    state,              \* NewMiniGame.state
    starting_area,      \* NewMiniGame.starting_area
    prev_area,          \* NewMiniGame.prev_area
    number,             \* NewMiniGame.number
    number_reset_flag,  \* NewMiniGame.number_reset_flag
    bar_call,           \* what the last NewMiniGame.run() call saw and did
    scenario_pos,       \* how many run() calls were made, all of them the scenario's
    bar_presses         \* keys pressed so far for the bar the last frame showed

bar_vars == <<state, starting_area, prev_area, number, number_reset_flag, bar_call,
              scenario_pos, bar_presses>>

VARIABLES
    BoxNumber,          \* FivemAutoFish.BoxNumber1, BoxNumber2, BoxNumber3, by slot
    box_call            \* what the last call into the box tracker saw and did

box_vars == <<BoxNumber, box_call>>

VARIABLES
    went_to_none,       \* FivemAutoFish.went_to_none
    pause,              \* FivemAutoFish.pause
    last_no_detection,  \* FivemAutoFish.last_no_detection
    e_press_count,      \* FivemAutoFish.e_press_count
    now,                \* the clock time.time() reads
    pc_main,            \* where the main loop (FivemAutoFish.run) stands
    pc_e,               \* where the secondary input task (handle_press_e) stands
    cycle,              \* what the last iteration of the main loop did
    fail_safe_at,       \* the clock readings of the last two fail-safe firings
    last_click_at,      \* the clock reading of the last targeted click, -1 for none
    main_read_pause,    \* what the main loop read in self.pause at line 478, last
    e_read_pause        \* what handle_press_e read in self.pause at line 295, last

loop_vars == <<went_to_none, pause, last_no_detection, e_press_count, now,
               pc_main, pc_e, cycle, fail_safe_at, last_click_at,
               main_read_pause, e_read_pause>>

vars == <<bar_vars, box_vars, loop_vars>>

----------------------------------------------------------------------------
(* NewMiniGame: constants of the class and of its configuration *)

RESET == 0
FOUND == 1
INTERCEPTION == 2

\* len(self.vk_keys): the four keys VK_1..VK_4
NumKeys == 4

\* the numeral templates n1, n2, n3
NumTemplates == 3

\* number_conf = 0.80, in hundredths
NumberConf == 80

\* the floor 0.35 of the fallback, in hundredths
ScoreFloor == 35

\* compare_dif = CompareDifNum / CompareDifDen = 0.4
CompareDifNum == 2
CompareDifDen == 5

\* new_area_diff = NewAreaDiffNum / NewAreaDiffDen = 1.5
NewAreaDiffNum == 3
NewAreaDiffDen == 2

\* the segmented areas a frame can show
Areas == {0, 40, 118, 120}

\* the best match score of one template on a frame, in hundredths
ScoreLevels == {20, 35, 85, 90}

ScoreVectors == [1..NumTemplates -> ScoreLevels]

----------------------------------------------------------------------------
(* NewMiniGame._detect_number *)

\* the loop of lines 121-127: the first template, in order, with the highest
\* score among those that reach number_conf; <<detected, best_score>>
RECURSIVE ConfidentScan(_, _, _, _)
ConfidentScan(scores, idx, detected, best_score) ==
    IF idx > NumTemplates THEN <<detected, best_score>>
    ELSE IF scores[idx] >= NumberConf /\ scores[idx] > best_score
         THEN ConfidentScan(scores, idx + 1, idx, scores[idx])
         ELSE ConfidentScan(scores, idx + 1, detected, best_score)

\* max(all_scores, key=lambda x: x[1]): the first entry with the highest score
BestIdx(scores) ==
    CHOOSE i \in 1..NumTemplates :
        /\ \A j \in 1..NumTemplates : scores[j] <= scores[i]
        /\ \A j \in 1..(i - 1) : scores[j] < scores[i]

\* lines 117-135: the numeral a frame's scores select, 0 for none
Detected(scores) ==
    LET confident == ConfidentScan(scores, 1, 0, -1)[1]
    IN  IF confident # 0 THEN confident
        ELSE IF scores[BestIdx(scores)] >= ScoreFloor THEN BestIdx(scores)
        ELSE 0

\* mutant: the reset flag is disarmed without clearing the stored number
NumberAfterFlagKeeps(num, flag) == num

\* lines 137-140: the stored number once the reset flag has been honoured
NumberAfterFlag(num, flag) == IF flag THEN 0 ELSE num

\* mutant: a pass that detects nothing forgets the stored number
NumberAfterDetectClears(num, flag, detected) ==
    IF detected # 0 THEN detected ELSE 0

\* lines 137-153: the stored number after a detection pass
NumberAfterDetect(num, flag, detected) ==
    IF detected # 0 THEN detected ELSE NumberAfterFlag(num, flag)

----------------------------------------------------------------------------
(* NewMiniGame.run *)

\* line 175: current_area / starting_area <= compare_dif
ShrunkEnough(current_area, start) ==
    current_area * CompareDifDen <= CompareDifNum * start

\* line 198: current_area / starting_area >= new_area_diff
GrewEnough(current_area, start) ==
    current_area * NewAreaDiffDen >= NewAreaDiffNum * start

\* mutant: the gate on the numeral is left out
HasNumberAlways(num) == TRUE

\* line 177: the gate on the recognized numeral
HasNumber(num) == num > 0

Min(a, b) == IF a < b THEN a ELSE b
Max(a, b) == IF a > b THEN a ELSE b

\* mutant: the key is indexed by the number instead of the number - 1
KeyForNumberAsIndex(num) == Max(0, Min(NumKeys - 1, num)) + 1

\* lines 205-206: the 1-based ordinal of the key pressed for a number
KeyFor(num) == Max(0, Min(NumKeys - 1, num - 1)) + 1

\* lines 174-200: the state, starting_area and number after the if/elif chain
\* (b: the fields after the detection pass)
Chain(b, current_area) ==
    IF b.state = FOUND /\ b.starting_area # 0 THEN
        IF ShrunkEnough(current_area, b.starting_area) /\ HasNumber(b.number)
        THEN [b EXCEPT !.state = INTERCEPTION]
        ELSE b
    ELSE IF b.state = RESET /\ current_area > 0 THEN
        [b EXCEPT !.state = FOUND,
                  !.starting_area = current_area,
                  !.number_reset_flag = TRUE]
    ELSE IF current_area = 0 THEN
        [b EXCEPT !.state = RESET, !.starting_area = 0, !.number = 0]
    ELSE IF /\ current_area # 0
            /\ b.state = FOUND
            /\ b.starting_area # 0
            /\ GrewEnough(current_area, b.starting_area) THEN
        [b EXCEPT !.starting_area = current_area]
    ELSE b

\* mutant: the key press leaves the number and the starting area in place
AfterPressKeepsNumber(b) ==
    [b EXCEPT !.state = RESET,
              !.number_reset_flag = FALSE,
              !.prev_area = 0]

\* lines 209-213: the fields after the key press
AfterPress(b) ==
    [b EXCEPT !.state = RESET,
              !.number = 0,
              !.number_reset_flag = FALSE,
              !.prev_area = 0,
              !.starting_area = 0]

\* mutant: only INTERCEPTION counts as active
ReturnValueInterceptionOnly(st) == st = INTERCEPTION

\* line 218: the value returned when no key was pressed
ReturnValue(st) == st # RESET

\* lines 155-218: one call of run() on a frame with the given area and scores,
\* from the fields b; the fields after the call and what the call did
Run(b, current_area, scores) ==
    LET detected == IF current_area > 0 THEN Detected(scores) ELSE 0
        b1 == IF current_area > 0
              THEN [b EXCEPT !.number = NumberAfterDetect(b.number, b.number_reset_flag, detected),
                             !.number_reset_flag = FALSE]
              ELSE b
        b2 == Chain(b1, current_area)
        b3 == [b2 EXCEPT !.prev_area = current_area]
        press == b3.state = INTERCEPTION /\ b3.number # 0
        b4 == IF press THEN AfterPress(b3) ELSE b3
    IN  [after |-> b4,
         detected |-> detected,
         number_mid |-> b1.number,
         chain_state |-> b2.state,
         keys |-> IF press THEN <<KeyFor(b3.number)>> ELSE <<>>,
         ret |-> IF press THEN TRUE ELSE ReturnValue(b3.state)]

Bar == [state |-> state, starting_area |-> starting_area, prev_area |-> prev_area,
        number |-> number, number_reset_flag |-> number_reset_flag]

\* the effect of one run() call on the recognizer's fields
BarRun(current_area, scores) ==
    \E r \in {Run(Bar, current_area, scores)} :
        /\ state' = r.after.state
        /\ starting_area' = r.after.starting_area
        /\ prev_area' = r.after.prev_area
        /\ number' = r.after.number
        /\ number_reset_flag' = r.after.number_reset_flag
        /\ bar_call' = [called |-> TRUE,
                        pre |-> Bar,
                        area |-> current_area,
                        best |-> IF current_area > 0 THEN scores[BestIdx(scores)] ELSE 0,
                        detected |-> r.detected,
                        number_mid |-> r.number_mid,
                        chain_state |-> r.chain_state,
                        keys |-> r.keys,
                        ret |-> r.ret]

----------------------------------------------------------------------------
(* lines 73-79: the fields after construction *)

NoBarCall ==
    [called |-> FALSE,
     pre |-> [state |-> RESET, starting_area |-> 0, prev_area |-> 0,
              number |-> 0, number_reset_flag |-> FALSE],
     area |-> 0,
     best |-> 0,
     detected |-> 0,
     number_mid |-> 0,
     chain_state |-> RESET,
     keys |-> <<>>,
     ret |-> FALSE]

InitBar ==
    /\ state = RESET
    /\ starting_area = 0
    /\ prev_area = 0
    /\ number = 0
    /\ number_reset_flag = FALSE
    /\ bar_call = NoBarCall

----------------------------------------------------------------------------
(* FivemAutoFish: the box tracker *)

\* the slots BoxNumber1..BoxNumber3, and the digit templates d1..d3
NumSlots == 3

\* Optional[BoxRecord]: no record
None == [none |-> TRUE]

\* config["region"]: the origin of the cropped region on the screen
RegionLeft == 100
RegionTop == 50

\* cs_success_color, and the range cs_background_color_lower..upper
SuccessColor == <<50, 205, 50>>
BackgroundLower == <<0, 0, 0>>
BackgroundUpper == <<40, 40, 40>>

\* the dominant colours a box of a frame can have
Colours == {<<20, 20, 20>>, SuccessColor, <<200, 30, 30>>, <<30, 30, 200>>}

\* the boxes (x, y, w, h) of numeral detections and of shape candidates
NumeralBoxes == {<<2, 3, 9, 11>>}
ShapeBoxes == {<<0, 0, 20, 20>>, <<30, 5, 21, 24>>}

\* the longest list of numeral detections and of shape candidates of a frame
MaxDetections == 2
MaxBoxes == 4

\* line 414: the colour lies inside the background range, channel by channel
InBackground(color) ==
    \A k \in 1..3 : color[k] >= BackgroundLower[k] /\ color[k] <= BackgroundUpper[k]

\* lines 418 and 455: (int(w / 2 + x), int(h / 2 + y)) of a box (x, y, w, h)
CenterOf(box) == <<box[3] \div 2 + box[1], box[4] \div 2 + box[2]>>

\* lines 411 and 445: (x, y, x2, y2) of a box (x, y, w, h)
BoundsOf(box) == <<box[1], box[2], box[1] + box[3], box[2] + box[4]>>

\* mutant: the colour measured on the frame is stored whatever it is
StoredColourMeasured(cached, color) == color

\* lines 415-417: the colour stored for a detection of the given colour
StoredColour(cached, color) ==
    IF InBackground(color) /\ cached # None THEN cached.color ELSE color

\* lines 407-420: the slots after _update_number_boxes; a detection is
\* [digit, box, color], color being the dominant colour of its box
RECURSIVE UpdateNumberBoxes(_, _)
UpdateNumberBoxes(slots, detections) ==
    IF detections = <<>> THEN slots
    ELSE LET d == Head(detections)
             record == [center |-> CenterOf(d.box),
                        color |-> StoredColour(slots[d.digit], d.color),
                        bounds |-> BoundsOf(d.box)]
         IN  UpdateNumberBoxes([slots EXCEPT ![d.digit] = record], Tail(detections))

\* mutant: the last record of the colour is taken instead of the first
FindMatchingBoxLast(slots, color) ==
    IF \E k \in 1..NumSlots : slots[k] # None /\ slots[k].color = color
    THEN CHOOSE k \in 1..NumSlots :
            /\ slots[k] # None /\ slots[k].color = color
            /\ \A j \in (k + 1)..NumSlots : ~(slots[j] # None /\ slots[j].color = color)
    ELSE 0

\* lines 422-426: the slot of the first record whose colour equals the given
\* one, 0 for no record
FindMatchingBox(slots, color) ==
    IF \E k \in 1..NumSlots : slots[k] # None /\ slots[k].color = color
    THEN CHOOSE k \in 1..NumSlots :
            /\ slots[k] # None /\ slots[k].color = color
            /\ \A j \in 1..(k - 1) : ~(slots[j] # None /\ slots[j].color = color)
    ELSE 0

\* lines 455-457: a matched record refreshed from a candidate's box
Refreshed(record, box) ==
    [record EXCEPT !.center = CenterOf(box), !.bounds = BoundsOf(box)]

\* mutant: the colour is tested against the background range instead of the
\* success colour
IsSuccessInBackground(color) == InBackground(color)

\* line 448: the candidate counts as succeeded
IsSuccess(color) == color = SuccessColor

\* lines 443-457: the loop over the candidates; a candidate is [box, color].
\* acc: the slots, success_count, clickable and the slot each candidate matched
\* (0 for none, also for a succeeded candidate)
RECURSIVE ScanBoxes(_, _)
ScanBoxes(acc, boxes) ==
    IF boxes = <<>> THEN acc
    ELSE LET c == Head(boxes)
             m == FindMatchingBox(acc.slots, c.color)
         IN  IF IsSuccess(c.color)
             THEN ScanBoxes([acc EXCEPT !.success_count = @ + 1,
                                        !.matches = Append(@, 0)],
                            Tail(boxes))
             ELSE ScanBoxes([acc EXCEPT !.clickable = TRUE,
                                        !.matches = Append(@, m),
                                        !.slots = IF m = 0 THEN acc.slots
                                                  ELSE [acc.slots EXCEPT
                                                           ![m] = Refreshed(acc.slots[m], c.box)]],
                            Tail(boxes))

\* mutant: the success count itself is taken as the slot
TargetSlotIsCount(success_count) ==
    IF success_count = 1 THEN 1
    ELSE IF success_count = 2 THEN 2
    ELSE IF success_count = 3 THEN 3
    ELSE 0

\* lines 462-468: the slot the success count selects, 0 for none
TargetSlot(success_count) ==
    IF success_count = 0 THEN 1
    ELSE IF success_count = 1 THEN 2
    ELSE IF success_count = 2 THEN 3
    ELSE 0

\* lines 367-370: the screen position click_box clicks for a record
ClickPoint(record) == <<RegionLeft + record.center[1], RegionTop + record.center[2]>>

\* lines 439-473: _handle_boxes; the slots after it, its result and its clicks
HandleBoxes(slots, boxes) ==
    LET acc == ScanBoxes([slots |-> slots, success_count |-> 0,
                          clickable |-> FALSE, matches |-> <<>>], boxes)
        t == IF acc.clickable THEN TargetSlot(acc.success_count) ELSE 0
        hit == t # 0 /\ acc.slots[t] # None
    IN  [slots |-> acc.slots,
         success_count |-> acc.success_count,
         clickable |-> acc.clickable,
         matches |-> acc.matches,
         target |-> t,
         clicks |-> IF hit THEN <<ClickPoint(acc.slots[t])>> ELSE <<>>,
         ret |-> hit]

\* lines 432-437: the screen positions _click_fail_safe clicks, in order
RECURSIVE ClickFailSafe(_)
ClickFailSafe(boxes) ==
    IF boxes = <<>> THEN <<>>
    ELSE LET b == Head(boxes).box
         IN  <<(<<RegionLeft + b[1] + b[3] \div 2, RegionTop + b[2] + b[4] \div 2>>)>>
             \o ClickFailSafe(Tail(boxes))

\* the lists of at most n entries drawn from a set
RECURSIVE ListsUpTo(_, _)
ListsUpTo(S, n) ==
    IF n = 0 THEN {<<>>}
    ELSE LET shorter == ListsUpTo(S, n - 1)
         IN  shorter \cup {Append(l, e) : l \in {x \in shorter : Len(x) = n - 1}, e \in S}

\* the dominant colour is a function of the box: one box, one colour per frame
OneColourPerBox(l) ==
    \A i, j \in 1..Len(l) : l[i].box = l[j].box => l[i].color = l[j].color

\* the numeral detections process_frame_number can report on a frame
DetectionLists ==
    {l \in ListsUpTo([digit : 1..NumSlots, box : NumeralBoxes, color : Colours],
                     MaxDetections) : OneColourPerBox(l)}

\* the shape candidates process_frame_boxes can report on a frame
BoxLists ==
    {l \in ListsUpTo([box : ShapeBoxes, color : Colours], MaxBoxes) : OneColourPerBox(l)}

NoBoxCall ==
    [op |-> "none", pre |-> [k \in 1..NumSlots |-> None], input |-> <<>>,
     success_count |-> 0, clickable |-> FALSE, matches |-> <<>>, target |-> 0,
     clicks |-> <<>>, ret |-> FALSE]

\* the effect of one _update_number_boxes call
UpdateCall(detections) ==
    /\ BoxNumber' = UpdateNumberBoxes(BoxNumber, detections)
    /\ box_call' = [NoBoxCall EXCEPT !.op = "update", !.pre = BoxNumber,
                                     !.input = detections]

\* the effect of one _handle_boxes call
HandleCall(boxes) ==
    \E r \in {HandleBoxes(BoxNumber, boxes)} :
        /\ BoxNumber' = r.slots
        /\ box_call' = [op |-> "handle", pre |-> BoxNumber, input |-> boxes,
                        success_count |-> r.success_count, clickable |-> r.clickable,
                        matches |-> r.matches, target |-> r.target,
                        clicks |-> r.clicks, ret |-> r.ret]

\* lines 227-229: the slots after construction
InitBox ==
    /\ BoxNumber = [k \in 1..NumSlots |-> None]
    /\ box_call = NoBoxCall

----------------------------------------------------------------------------
(* FivemAutoFish: the main loop and the two background tasks *)

\* last_no_detection_delay, in ticks of the clock
LastNoDetectionDelay == 2

\* the clock stops at MaxTime, and e_press_count at MaxEPress
MaxTime == 6
MaxEPress == 1

\* what the frames of the main loop show: the bar absent or present, no
\* numeral or the numeral 2, at most one numeral detection (digit 1, on a
\* live colour), and at most two shape candidates, live or succeeded
LoopAreas == {0, 120}
LoopScores == {[i \in 1..NumTemplates |-> 20],
               [i \in 1..NumTemplates |-> IF i = 2 THEN 90 ELSE 20]}
LiveColour == <<200, 30, 30>>
LoopDetectionLists ==
    {l \in DetectionLists :
        /\ Len(l) <= 1
        /\ \A i \in 1..Len(l) : l[i].digit = 1 /\ l[i].color = LiveColour}
LoopBoxLists ==
    {l \in BoxLists :
        /\ Len(l) <= 2
        /\ \A i \in 1..Len(l) : l[i].color \in {LiveColour, SuccessColor}
        /\ \A i, j \in 1..Len(l) : i # j => l[i].box # l[j].box}

\* what an iteration did: how it ended, whether it reached the box pipeline
\* and when, whether process_frame_number and process_frame_boxes were called,
\* whether the region frame showed a shape candidate, the candidates found
\* and the clicks issued
NoCycle ==
    [kind |-> "none", box_ran |-> FALSE, numerals_ran |-> FALSE,
     shapes_ran |-> FALSE, candidates |-> FALSE, boxes |-> <<>>, clicks |-> <<>>,
     at |-> -1]

\* mutant: the two clock readings are subtracted the wrong way round
FailSafeDueReversed(t, last) == last - t > LastNoDetectionDelay

\* mutant: the fail-safe is due as soon as the delay has passed
FailSafeDueAtDelay(t, last) == t - last >= LastNoDetectionDelay

\* line 520: now - self.last_no_detection > self.last_no_detection_delay
FailSafeDue(t, last) == t - last > LastNoDetectionDelay

\* mutant: a paused iteration restarts the no-detection bookkeeping
MainPausedResets ==
    /\ pc_main = "top"
    /\ pause
    /\ cycle' = [NoCycle EXCEPT !.kind = "paused"]
    /\ bar_call' = NoBarCall
    /\ went_to_none' = FALSE
    /\ last_no_detection' = now
    /\ UNCHANGED <<state, starting_area, prev_area, number, number_reset_flag,
                   scenario_pos, bar_presses, box_vars, pause, e_press_count, now, pc_main,
                   pc_e, fail_safe_at, last_click_at,
                   e_read_pause>>
    /\ main_read_pause' = pause

\* lines 478-481: an iteration that reads pause = True
MainPaused ==
    /\ pc_main = "top"
    /\ pause
    /\ cycle' = [NoCycle EXCEPT !.kind = "paused"]
    /\ bar_call' = NoBarCall
    /\ UNCHANGED <<state, starting_area, prev_area, number, number_reset_flag,
                   scenario_pos, bar_presses, box_vars, went_to_none, pause, last_no_detection,
                   e_press_count, now, pc_main, pc_e, fail_safe_at, last_click_at,
                   e_read_pause>>
    /\ main_read_pause' = pause

\* line 478: an iteration that reads pause = False goes on
MainBegin ==
    /\ pc_main = "top"
    /\ ~pause
    /\ pc_main' = "cycle"
    /\ cycle' = NoCycle
    /\ bar_call' = NoBarCall
    /\ UNCHANGED <<state, starting_area, prev_area, number, number_reset_flag,
                   scenario_pos, bar_presses, box_vars, went_to_none, pause, last_no_detection,
                   e_press_count, now, pc_e, fail_safe_at, last_click_at,
                   e_read_pause>>
    /\ main_read_pause' = pause

\* mutant: an iteration without a full frame restarts the no-detection
\* bookkeeping
NoFullFrameResets ==
    /\ cycle' = [NoCycle EXCEPT !.kind = "no_frame"]
    /\ went_to_none' = FALSE
    /\ last_no_detection' = now
    /\ UNCHANGED <<bar_vars, BoxNumber, fail_safe_at, last_click_at>>

\* lines 483-486: capture_screen_full() returned None
NoFullFrame ==
    /\ cycle' = [NoCycle EXCEPT !.kind = "no_frame"]
    /\ UNCHANGED <<bar_vars, BoxNumber, went_to_none, last_no_detection, fail_safe_at,
                   last_click_at>>

\* lines 428-430: _reset_no_detection
ResetNoDetection ==
    /\ went_to_none' = FALSE
    /\ last_no_detection' = now

\* mutant: shape candidates are looked for only when numerals were detected
ShapesWantedOnDetections(detections, went) == detections # <<>>

\* line 504: detections or self.went_to_none
ShapesWanted(detections, went) == detections # <<>> \/ went

\* lines 497-522: the box pipeline on a region frame with the given numeral
\* detections and shape candidates
BoxPipeline(detections_seen, boxes) ==
    LET detections == IF went_to_none THEN <<>> ELSE detections_seen
        slots == IF detections # <<>>
                 THEN UpdateNumberBoxes(BoxNumber, detections)
                 ELSE BoxNumber
        went == IF detections # <<>> THEN FALSE ELSE went_to_none
        ran == [NoCycle EXCEPT !.box_ran = TRUE, !.at = now,
                               !.numerals_ran = ~went_to_none,
                               !.candidates = boxes # <<>>]
        looked == [ran EXCEPT !.shapes_ran = TRUE, !.boxes = boxes]
    IN  IF ~ShapesWanted(detections, went) THEN
            /\ ResetNoDetection
            /\ BoxNumber' = slots
            /\ cycle' = [ran EXCEPT !.kind = "no_detections"]
            /\ UNCHANGED <<fail_safe_at, last_click_at>>
        ELSE IF boxes = <<>> THEN
            /\ ResetNoDetection
            /\ BoxNumber' = slots
            /\ cycle' = [looked EXCEPT !.kind = "no_boxes"]
            /\ UNCHANGED <<fail_safe_at, last_click_at>>
        ELSE \E h \in {HandleBoxes(slots, boxes)} :
            /\ BoxNumber' = h.slots
            /\ IF h.ret THEN
                   /\ went_to_none' = TRUE
                   /\ last_click_at' = now
                   /\ cycle' = [looked EXCEPT !.kind = "clicked", !.clicks = h.clicks]
                   /\ UNCHANGED <<last_no_detection, fail_safe_at>>
               ELSE IF FailSafeDue(now, last_no_detection) THEN
                   /\ went_to_none' = went
                   /\ last_no_detection' = now
                   /\ fail_safe_at' = <<fail_safe_at[2], now>>
                   /\ cycle' = [looked EXCEPT !.kind = "fail_safe",
                                              !.clicks = ClickFailSafe(boxes)]
                   /\ UNCHANGED last_click_at
               ELSE
                   /\ went_to_none' = went
                   /\ cycle' = [looked EXCEPT !.kind = "no_action"]
                   /\ UNCHANGED <<last_no_detection, fail_safe_at, last_click_at>>

\* lines 488-495: the bar recognizer on the full frame; when it returns True
\* the iteration ends, as it does when capture_screen() returns None
FullFrame(current_area, scores) ==
    /\ BarRun(current_area, scores)
    /\ UNCHANGED <<scenario_pos, bar_presses>>
    /\ IF Run(Bar, current_area, scores).ret THEN
           /\ cycle' = [NoCycle EXCEPT !.kind = "bar"]
           /\ UNCHANGED <<BoxNumber, went_to_none, last_no_detection, fail_safe_at,
                          last_click_at>>
       ELSE \/ /\ cycle' = [NoCycle EXCEPT !.kind = "no_region_frame"]
               /\ UNCHANGED <<BoxNumber, went_to_none, last_no_detection, fail_safe_at,
                              last_click_at>>
            \/ \E detections \in LoopDetectionLists, boxes \in LoopBoxLists :
                   BoxPipeline(detections, boxes)

\* lines 483-522: the rest of an iteration that read pause = False
MainCycle ==
    /\ pc_main = "cycle"
    /\ pc_main' = "top"
    /\ \/ NoFullFrame
       \/ \E current_area \in LoopAreas, scores \in LoopScores :
              FullFrame(current_area, scores)
    /\ UNCHANGED <<box_call, pause, e_press_count, now, pc_e, main_read_pause,
                   e_read_pause>>

\* lines 281-291: handle_pause on a key-down event of the pause key
TogglePause ==
    /\ pause' = ~pause
    /\ UNCHANGED <<bar_vars, box_vars, went_to_none, last_no_detection,
                   e_press_count, now, pc_main, pc_e, cycle, fail_safe_at, last_click_at,
                   main_read_pause, e_read_pause>>

\* lines 295-297: handle_press_e reads pause = True, sleeps and starts over
PressEPaused ==
    /\ pc_e = "top"
    /\ pause
    /\ e_read_pause' = pause
    /\ UNCHANGED <<bar_vars, box_vars, went_to_none, pause, last_no_detection,
                   e_press_count, now, pc_main, pc_e, cycle, fail_safe_at,
                   last_click_at, main_read_pause>>

\* mutant: handle_press_e goes on whatever it reads in pause
PressEBeginIgnoresPause ==
    /\ pc_e = "top"
    /\ pc_e' = "scan"
    /\ e_read_pause' = pause
    /\ UNCHANGED <<bar_vars, box_vars, went_to_none, pause, last_no_detection,
                   e_press_count, now, pc_main, cycle, fail_safe_at, last_click_at,
                   main_read_pause>>

\* lines 295-297: handle_press_e reads pause = False and goes on
PressEBegin ==
    /\ pc_e = "top"
    /\ ~pause
    /\ pc_e' = "scan"
    /\ e_read_pause' = pause
    /\ UNCHANGED <<bar_vars, box_vars, went_to_none, pause, last_no_detection,
                   e_press_count, now, pc_main, cycle, fail_safe_at, last_click_at,
                   main_read_pause>>

\* lines 299-313: no frame or nothing to press for, or the first press
PressEScan ==
    /\ pc_e = "scan"
    /\ \/ /\ pc_e' = "top"
          /\ UNCHANGED e_press_count
       \/ /\ e_press_count < MaxEPress
          /\ e_press_count' = e_press_count + 1
          /\ pc_e' = "second"
    /\ UNCHANGED <<bar_vars, box_vars, went_to_none, pause, last_no_detection,
                   now, pc_main, cycle, fail_safe_at, last_click_at,
                   main_read_pause, e_read_pause>>

\* lines 310-311: the second press, after fish_press_e_delay
PressESecond ==
    /\ pc_e = "second"
    /\ pc_e' = "top"
    /\ UNCHANGED <<bar_vars, box_vars, went_to_none, pause, last_no_detection,
                   e_press_count, now, pc_main, cycle, fail_safe_at, last_click_at,
                   main_read_pause, e_read_pause>>

\* the clock advances
Tick ==
    /\ now < MaxTime
    /\ now' = now + 1
    /\ UNCHANGED <<bar_vars, box_vars, went_to_none, pause, last_no_detection,
                   e_press_count, pc_main, pc_e, cycle, fail_safe_at, last_click_at,
                   main_read_pause, e_read_pause>>

\* lines 231-234: the fields after construction, the tasks at their loop tops
InitLoop ==
    /\ went_to_none = FALSE
    /\ pause = TRUE
    /\ now = 0
    /\ last_no_detection = 0
    /\ e_press_count = 0
    /\ pc_main = "top"
    /\ pc_e = "top"
    /\ cycle = NoCycle
    /\ fail_safe_at = <<-1, -1>>
    /\ last_click_at = -1
    /\ main_read_pause = FALSE
    /\ e_read_pause = FALSE

----------------------------------------------------------------------------
(* The scenario of the area sequence [0,0,120,118,40] with compare_dif = 0.4 *)
(* and the numeral 2 recognized on the fifth frame alone                    *)

ScenarioAreas == <<0, 0, 120, 118, 40>>
ScenarioDetected == <<0, 0, 0, 0, 2>>
ScenarioStates == <<RESET, RESET, FOUND, FOUND, INTERCEPTION>>
ScenarioKeys == <<(<<>>), (<<>>), (<<>>), (<<>>), (<<2>>)>>
OffScenario == Len(ScenarioAreas) + 1

\* the frame is the scenario's next one: its area, and what is recognized on it
\* (on a frame of area 0 nothing is looked for)
ScenarioFrame(k, current_area, scores) ==
    /\ k <= Len(ScenarioAreas)
    /\ current_area = ScenarioAreas[k]
    /\ current_area > 0 => Detected(scores) = ScenarioDetected[k]

\* the count of key presses stops at MaxBarPresses
MaxBarPresses == 2

\* the keys pressed for one appearance of the bar: the frames with area > 0
\* that follow a frame with area 0, up to and including the frame on which
\* the area is 0 again
BarPressesAfter(count, last_area, keys) ==
    Min(MaxBarPresses, (IF last_area = 0 THEN 0 ELSE count) + Len(keys))

Init ==
    /\ InitBar
    /\ scenario_pos = 0
    /\ bar_presses = 0
    /\ InitBox
    /\ InitLoop

\* the recognizer driven frame by frame
Frame ==
    \E current_area \in Areas, scores \in ScoreVectors :
        /\ BarRun(current_area, scores)
        /\ UNCHANGED <<box_vars, loop_vars>>
        /\ bar_presses' = BarPressesAfter(bar_presses, bar_call.area, bar_call'.keys)
        /\ scenario_pos' = IF /\ scenario_pos < OffScenario
                              /\ ScenarioFrame(scenario_pos + 1, current_area, scores)
                           THEN scenario_pos + 1
                           ELSE OffScenario

NextBar == Frame

SpecBar == Init /\ [][NextBar]_vars

\* the program: the main loop, the two tasks and the clock
Next ==
    \/ MainPaused
    \/ MainBegin
    \/ MainCycle
    \/ TogglePause
    \/ PressEPaused
    \/ PressEBegin
    \/ PressEScan
    \/ PressESecond
    \/ Tick

Spec == Init /\ [][Next]_vars

\* the main loop with the pause key and the clock.  The press-E task is left
\* out: it reads pause and writes e_press_count alone (lines 293-313), which
\* the main loop never reads.
NextLoop ==
    \/ MainPaused
    \/ MainBegin
    \/ MainCycle
    \/ TogglePause
    \/ Tick

\* lines 477-522: the main loop is a thread that never blocks: each of its
\* steps ends in a bounded sleep or goes straight on, so a step that is
\* possible is taken.  Nothing is assumed of the pause key or of the pace of
\* the clock.
SpecFair ==
    /\ Init
    /\ [][NextLoop]_vars
    /\ WF_vars(MainPaused)
    /\ WF_vars(MainBegin)
    /\ WF_vars(MainCycle)

\* the box tracker driven call by call; what a call saw and did is kept in
\* box_call until the caller drops it, and the next call follows
NumberBoxes ==
    /\ box_call.op = "none"
    /\ \E detections \in DetectionLists \ {<<>>} : UpdateCall(detections)
    /\ UNCHANGED <<bar_vars, loop_vars>>

ShapeBoxesSeen ==
    /\ box_call.op = "none"
    /\ \E boxes \in BoxLists \ {<<>>} : HandleCall(boxes)
    /\ UNCHANGED <<bar_vars, loop_vars>>

Returned ==
    /\ box_call.op # "none"
    /\ box_call' = NoBoxCall
    /\ UNCHANGED <<bar_vars, BoxNumber, loop_vars>>

NextBox == NumberBoxes \/ ShapeBoxesSeen \/ Returned

SpecBox == Init /\ [][NextBox]_vars

----------------------------------------------------------------------------
(* Claims about NewMiniGame, checked under SpecBar *)

\* C1 (as claimed): after a run() call whose frame has segmented area 0 the
\* recognizer is in state RESET with starting_area = 0 and number = 0,
\* whatever its state before the call.
C1_AreaZeroForcesReset ==
    (bar_call.called /\ bar_call.area = 0) =>
        (state = RESET /\ starting_area = 0 /\ number = 0)

\* C2: the chain arrives at INTERCEPTION only in a call that starts in FOUND
\* with current_area/starting_area <= compare_dif and a number > 0 after the
\* detection pass; with number 0 and a bar on the frame a call that starts in
\* FOUND ends in FOUND; a call that starts in RESET neither arrives at
\* INTERCEPTION nor presses a key.
C2_InterceptionGated ==
    /\ bar_call.chain_state = INTERCEPTION =>
          /\ bar_call.pre.state = FOUND
          /\ bar_call.area * CompareDifDen <= CompareDifNum * bar_call.pre.starting_area
          /\ bar_call.number_mid > 0
    /\ (/\ bar_call.called
        /\ bar_call.pre.state = FOUND
        /\ bar_call.area > 0
        /\ bar_call.number_mid = 0) =>
          (state = FOUND /\ bar_call.chain_state = FOUND /\ bar_call.keys = <<>>)
    /\ (bar_call.called /\ bar_call.pre.state = RESET) =>
          (bar_call.chain_state # INTERCEPTION /\ bar_call.keys = <<>>)

\* C2 witness: a call that started in FOUND on a shrunk bar with a number and
\* arrived at INTERCEPTION.
C2_Witness ==
    /\ bar_call.called
    /\ bar_call.pre.state = FOUND
    /\ bar_call.chain_state = INTERCEPTION
    /\ bar_call.number_mid > 0

\* C3: a run() call that presses a key ends with state = RESET, number = 0,
\* starting_area = 0, prev_area = 0 and number_reset_flag = FALSE and returns
\* True; a call made in state RESET presses no key.
C3_PressResets ==
    /\ bar_call.keys # <<>> =>
          /\ state = RESET
          /\ number = 0
          /\ starting_area = 0
          /\ prev_area = 0
          /\ number_reset_flag = FALSE
          /\ bar_call.ret = TRUE
    /\ (bar_call.called /\ bar_call.pre.state = RESET) => bar_call.keys = <<>>

\* C3 witness: a call pressed a key on a frame that still showed a bar.
C3_Witness ==
    /\ bar_call.keys # <<>>
    /\ bar_call.area > 0
    /\ bar_call.pre.number_reset_flag

\* C4 (as claimed): a detection pass entered with stored number n > 0, on a
\* frame whose best score is below the floor (so no template clears
\* number_conf either), leaves the stored number n.
C4_StickyAlways ==
    (/\ bar_call.called
     /\ bar_call.area > 0
     /\ bar_call.pre.number > 0
     /\ bar_call.best < ScoreFloor) =>
        bar_call.number_mid = bar_call.pre.number

\* C4 (amended): a detection pass entered with stored number n > 0 and the
\* one-shot reset flag not armed, on a frame whose best score is below the
\* floor, leaves the stored number n.
C4_StickyUnlessFlag ==
    (/\ bar_call.called
     /\ bar_call.area > 0
     /\ bar_call.pre.number > 0
     /\ ~bar_call.pre.number_reset_flag
     /\ bar_call.best < ScoreFloor) =>
        bar_call.number_mid = bar_call.pre.number

\* C4 witness: such a pass happened, and the recognizer still holds n.
C4_Witness ==
    /\ bar_call.called
    /\ bar_call.area > 0
    /\ bar_call.pre.number > 0
    /\ ~bar_call.pre.number_reset_flag
    /\ bar_call.best < ScoreFloor
    /\ bar_call.detected = 0
    /\ number = bar_call.pre.number

\* C5: along the scenario the k-th call arrives at the k-th of the states
\* [RESET,RESET,FOUND,FOUND,INTERCEPTION] (the state after the if/elif chain,
\* which the key press resets in the same call) and presses the k-th of the
\* keys [none,none,none,none,"2"].
C5_Scenario ==
    (scenario_pos >= 1 /\ scenario_pos <= Len(ScenarioAreas)) =>
        /\ bar_call.chain_state = ScenarioStates[scenario_pos]
        /\ bar_call.keys = ScenarioKeys[scenario_pos]

\* C5 witness: the fifth frame of the scenario was processed.
C5_Witness ==
    /\ scenario_pos = Len(ScenarioAreas)
    /\ bar_call.area = 40
    /\ bar_call.detected = 2

----------------------------------------------------------------------------
(* Claims about the box tracker, checked under SpecBox *)

\* the candidates of the last _handle_boxes call, by what the frame shows
SuccessSeen == {i \in 1..Len(box_call.input) : box_call.input[i].color = SuccessColor}
LiveSeen == {i \in 1..Len(box_call.input) : box_call.input[i].color # SuccessColor}

\* the slot the claimed mapping selects: success count + 1, with a live
\* candidate and fewer than three successes
ClaimedSlot ==
    IF LiveSeen # {} /\ Cardinality(SuccessSeen) <= 2
    THEN Cardinality(SuccessSeen) + 1
    ELSE 0

\* C8: _handle_boxes selects slot (number of success-coloured candidates + 1)
\* when there is a non-success candidate and fewer than three successes; it
\* returns True iff that slot holds a record, and then clicks once, at the
\* record's center offset by the region origin; otherwise it clicks nothing.
C8_TargetBySuccessCount ==
    box_call.op = "handle" =>
        /\ box_call.ret = (ClaimedSlot # 0 /\ BoxNumber[ClaimedSlot] # None)
        /\ box_call.ret =>
              box_call.clicks =
                  <<(<<RegionLeft + BoxNumber[ClaimedSlot].center[1],
                       RegionTop + BoxNumber[ClaimedSlot].center[2]>>)>>
        /\ ~box_call.ret => box_call.clicks = <<>>

\* C8 witness: one success, a live candidate, and slot 2's record clicked.
C8_Witness ==
    /\ box_call.op = "handle"
    /\ Cardinality(SuccessSeen) = 1
    /\ LiveSeen # {}
    /\ box_call.ret
    /\ BoxNumber[1] # None
    /\ BoxNumber[1].center # BoxNumber[2].center

\* the last _handle_boxes call saw three candidates coloured [C1,C2,C1] with
\* C1 the success colour and C2 another
SawSuccessOtherSuccess ==
    /\ box_call.op = "handle"
    /\ Len(box_call.input) = 3
    /\ box_call.input[1].color = SuccessColor
    /\ box_call.input[2].color # SuccessColor
    /\ box_call.input[3].color = SuccessColor

\* C9 (as claimed): for candidates coloured [C1,C2,C1], C1 the success colour,
\* _handle_boxes computes success_count = 1 and selects slot 2.
C9_CountsOne ==
    SawSuccessOtherSuccess => (box_call.success_count = 1 /\ box_call.target = 2)

\* C9 (amended): for candidates coloured [C1,C2,C1], C1 the success colour,
\* _handle_boxes computes success_count = 2 and selects slot 3; it clicks iff
\* slot 3 holds a record.
C9_CountsTwo ==
    SawSuccessOtherSuccess =>
        /\ box_call.success_count = 2
        /\ box_call.target = 3
        /\ box_call.ret = (BoxNumber[3] # None)

\* C9 witness: such a call, with records in slots 2 and 3.
C9_Witness ==
    /\ SawSuccessOtherSuccess
    /\ BoxNumber[2] # None
    /\ BoxNumber[3] # None
    /\ box_call.ret

\* the lowest-numbered slot that held the colour when the call began, 0 for none
LowestSlotOf(color) ==
    IF \E k \in 1..NumSlots : box_call.pre[k] # None /\ box_call.pre[k].color = color
    THEN CHOOSE k \in 1..NumSlots :
            /\ box_call.pre[k] # None /\ box_call.pre[k].color = color
            /\ \A j \in 1..NumSlots :
                  (box_call.pre[j] # None /\ box_call.pre[j].color = color) => k <= j
    ELSE 0

\* C10: in one _handle_boxes pass two non-success candidates of the same
\* colour resolve to the same record, the lowest-numbered slot that holds the
\* colour, or both to none; the pass changes no slot's colour and neither
\* fills nor empties a slot.
C10_SameColourSameRecord ==
    box_call.op = "handle" =>
        /\ \A i, j \in LiveSeen :
              box_call.input[i].color = box_call.input[j].color =>
                  box_call.matches[i] = box_call.matches[j]
        /\ \A i \in LiveSeen : box_call.matches[i] = LowestSlotOf(box_call.input[i].color)
        /\ \A k \in 1..NumSlots :
              /\ (BoxNumber[k] = None) = (box_call.pre[k] = None)
              /\ BoxNumber[k] # None => BoxNumber[k].color = box_call.pre[k].color

\* C10 witness: two slots held the colour of two live candidates at different
\* boxes, and the record of the lower slot was refreshed.
C10_Witness ==
    /\ box_call.op = "handle"
    /\ \E i, j \in LiveSeen :
          /\ i < j
          /\ box_call.input[i].box # box_call.input[j].box
          /\ box_call.input[i].color = box_call.input[j].color
          /\ box_call.matches[i] = 1
          /\ box_call.pre[2] # None
          /\ box_call.pre[2].color = box_call.input[i].color
          /\ BoxNumber[1] # box_call.pre[1]

----------------------------------------------------------------------------
(* Claims about the main loop, checked under Spec *)

\* C6: any two fail-safe firings are separated by more than
\* last_no_detection_delay on the clock: the readings of the clock at the last
\* two firings differ by more than the delay.
C6_FailSafeRateLimit ==
    fail_safe_at[1] # -1 => fail_safe_at[2] - fail_safe_at[1] > LastNoDetectionDelay

\* C6 witness: the fail-safe has just fired for the second time, as early as
\* the delay allows, in an iteration with candidates and no targeted click.
C6_Witness ==
    /\ cycle.kind = "fail_safe"
    /\ cycle.boxes # <<>>
    /\ fail_safe_at[1] # -1
    /\ fail_safe_at[2] = now
    /\ fail_safe_at[2] - fail_safe_at[1] = LastNoDetectionDelay + 1

\* C7: the box pipeline of an iteration runs, and clicks are issued, only if
\* run() returned False in that iteration; and run() returns False exactly
\* when it pressed no key and left the state RESET.
C7_BarPreempts ==
    /\ cycle.box_ran => (bar_call.called /\ bar_call.ret = FALSE)
    /\ cycle.clicks # <<>> => cycle.box_ran
    /\ bar_call.called =>
          ((bar_call.ret = FALSE) = (bar_call.keys = <<>> /\ state = RESET))

\* C7 witness: an iteration in which run() returned False on a frame that
\* showed no bar and the box pipeline clicked a target.
C7_Witness ==
    /\ cycle.kind = "clicked"
    /\ cycle.box_ran
    /\ bar_call.called
    /\ ~bar_call.ret
    /\ state = RESET

\* the fields the bar recognizer and the box pipeline keep between iterations
Kept == <<state, starting_area, prev_area, number, number_reset_flag,
          BoxNumber, went_to_none, last_no_detection>>

\* C11: an iteration of the main loop that reads pause = True at its start
\* captures no frame, runs neither recognizer, presses no key and issues no
\* click, and leaves the bar recognizer's fields, the three box slots,
\* went_to_none and last_no_detection as they were; the loop is back at its
\* top afterwards.
C11_PausedCycleIdle ==
    [][(pc_main = "top" /\ pause /\ cycle' # cycle) =>
          /\ cycle'.kind = "paused"
          /\ ~cycle'.box_ran
          /\ cycle'.clicks = <<>>
          /\ ~bar_call'.called
          /\ bar_call'.keys = <<>>
          /\ pc_main' = "top"
          /\ Kept' = Kept]_vars

\* C11 witness: a paused iteration has been gone through with a round of the
\* bar open, a slot claimed, the back-off set and the timer behind the clock.
C11_Witness ==
    /\ cycle.kind = "paused"
    /\ pause
    /\ state = FOUND
    /\ BoxNumber[1] # None
    /\ went_to_none
    /\ last_no_detection < now

\* C20: an iteration in which capture_screen_full() returns no frame runs
\* neither recognizer, presses no key, issues no click and leaves the bar
\* recognizer's fields, the box slots, went_to_none and last_no_detection as
\* they were; the loop is back at its top, with nothing counted or recorded,
\* and the next iteration starts like any other.
C20_NoFrameCycleIdle ==
    [][(pc_main = "cycle" /\ cycle'.kind = "no_frame") =>
          /\ ~cycle'.box_ran
          /\ cycle'.clicks = <<>>
          /\ ~bar_call'.called
          /\ bar_call'.keys = <<>>
          /\ pc_main' = "top"
          /\ Kept' = Kept
          /\ UNCHANGED <<pause, e_press_count, fail_safe_at>>]_vars

\* C20 witness: an iteration found no frame with a round of the bar open, a
\* slot claimed, the back-off set and the timer behind the clock.
C20_Witness ==
    /\ cycle.kind = "no_frame"
    /\ pc_main = "top"
    /\ state = FOUND
    /\ BoxNumber[1] # None
    /\ went_to_none
    /\ last_no_detection < now

----------------------------------------------------------------------------
(* Further claims about NewMiniGame, checked under SpecBar *)

\* C12 (as claimed): a run() call made in state FOUND on a frame whose area is
\* at least new_area_diff times starting_area sets starting_area to that
\* frame's area and leaves the state FOUND.
C12_RebaseOnGrowth ==
    (/\ bar_call.called
     /\ bar_call.pre.state = FOUND
     /\ bar_call.pre.starting_area > 0
     /\ bar_call.area * NewAreaDiffDen >= NewAreaDiffNum * bar_call.pre.starting_area) =>
        (starting_area = bar_call.area /\ state = FOUND)

\* C13 (as claimed): for one appearance of the bar at most one key is pressed,
\* none after an interception of the same bar, and no key is pressed on a
\* frame whose area is 0.
C13_OnePressPerBar ==
    /\ bar_presses <= 1
    /\ bar_call.keys # <<>> => bar_call.area > 0

\* C14: the call that takes the recognizer from RESET to FOUND sets
\* starting_area to the frame's area and arms number_reset_flag, without
\* clearing the number in that call; the flag stays armed over frames with
\* area 0, on which no detection pass is made; the next detection pass clears
\* the number to 0 before applying what it detects, and disarms the flag; a
\* pass that finds the flag disarmed never clears the number; and nothing but
\* the RESET -> FOUND transition arms the flag.
C14_OneShotNumeralReset ==
    bar_call.called =>
        /\ (bar_call.pre.state = RESET /\ bar_call.area > 0) =>
               /\ state = FOUND
               /\ starting_area = bar_call.area
               /\ number_reset_flag
               /\ number = IF bar_call.detected # 0 THEN bar_call.detected
                                                    ELSE bar_call.pre.number
        /\ (bar_call.pre.number_reset_flag /\ bar_call.area > 0) =>
               /\ bar_call.number_mid = bar_call.detected
               /\ ~number_reset_flag
        /\ (bar_call.pre.number_reset_flag /\ bar_call.area = 0
                                            /\ bar_call.keys = <<>>) =>
               /\ number_reset_flag
               /\ number = bar_call.pre.number
        /\ (~bar_call.pre.number_reset_flag /\ bar_call.area > 0) =>
               bar_call.number_mid = IF bar_call.detected # 0 THEN bar_call.detected
                                                               ELSE bar_call.pre.number
        /\ (number_reset_flag /\ ~bar_call.pre.number_reset_flag) =>
               (bar_call.pre.state = RESET /\ bar_call.area > 0)

\* C14 witness: a detection pass found the flag armed and a number stored,
\* detected nothing, and left the number 0 and the flag disarmed.
C14_Witness ==
    /\ bar_call.called
    /\ bar_call.pre.number_reset_flag
    /\ bar_call.pre.number > 0
    /\ bar_call.area > 0
    /\ bar_call.detected = 0
    /\ number = 0
    /\ ~number_reset_flag
    /\ state = FOUND

\* the numbers the key of which is looked at: those the recognizer stores and
\* larger ones
StoredNumbers == 1..(NumKeys + NumTemplates)

\* the key ordinal for a stored number: the number, and NumKeys for any
\* number above it
ClampedOrdinal(num) == IF num >= NumKeys THEN NumKeys ELSE num

\* C15: a run() call presses at most one key; when it presses one the stored
\* number is not 0 and the key's ordinal is that number clamped to 1..4
\* (1 -> 1, 2 -> 2, 3 -> 3, anything larger -> 4); the call was in
\* INTERCEPTION then.
C15_OneKeyClamped ==
    /\ Len(bar_call.keys) <= 1
    /\ bar_call.keys # <<>> =>
           /\ bar_call.number_mid # 0
           /\ bar_call.chain_state = INTERCEPTION
           /\ bar_call.keys[1] = ClampedOrdinal(bar_call.number_mid)
           /\ bar_call.keys[1] \in 1..NumKeys
    /\ \A num \in StoredNumbers : KeyFor(num) = ClampedOrdinal(num)

\* C15 witness: a call pressed the key 3 with the number 3 stored.
C15_Witness ==
    /\ bar_call.called
    /\ bar_call.keys = <<3>>
    /\ bar_call.number_mid = 3
    /\ state = RESET

----------------------------------------------------------------------------
(* Further claims about the box tracker, checked under SpecBox *)

\* the detections of an _update_number_boxes call that are for the digit d
DetectionsOf(d) ==
    {i \in 1..Len(box_call.input) : box_call.input[i].digit = d}

\* the last of them
LastDetectionOf(d) ==
    box_call.input[CHOOSE i \in DetectionsOf(d) : \A j \in DetectionsOf(d) : j <= i]

\* C18: when the detections _update_number_boxes processes for a digit d have
\* a dominant colour inside the background range and slot d already holds a
\* record, slot d keeps its colour while its center and bounds become those
\* of the detection; and a slot that holds a colour outside the background
\* range holds a colour outside it after any call into the tracker.
C18_ColourSticky ==
    /\ box_call.op = "update" =>
          \A d \in 1..NumSlots :
             (/\ DetectionsOf(d) # {}
              /\ box_call.pre[d] # None
              /\ \A i \in DetectionsOf(d) : InBackground(box_call.input[i].color)) =>
                 LET box == LastDetectionOf(d).box
                 IN  /\ BoxNumber[d].color = box_call.pre[d].color
                     /\ BoxNumber[d].center =
                            <<box[1] + box[3] \div 2, box[2] + box[4] \div 2>>
                     /\ BoxNumber[d].bounds =
                            <<box[1], box[2], box[1] + box[3], box[2] + box[4]>>
    /\ box_call.op # "none" =>
          \A d \in 1..NumSlots :
             (box_call.pre[d] # None /\ ~InBackground(box_call.pre[d].color)) =>
                 (BoxNumber[d] # None /\ ~InBackground(BoxNumber[d].color))

\* C18 witness: slot 1 held a live colour and the center of a shape candidate;
\* a detection for digit 1 on a background colour moved the center and the
\* bounds and left the colour.
C18_Witness ==
    /\ box_call.op = "update"
    /\ box_call.pre[1] # None
    /\ ~InBackground(box_call.pre[1].color)
    /\ DetectionsOf(1) # {}
    /\ InBackground(LastDetectionOf(1).color)
    /\ BoxNumber[1].color = box_call.pre[1].color
    /\ BoxNumber[1].center # box_call.pre[1].center
    /\ BoxNumber[1].bounds # box_call.pre[1].bounds

----------------------------------------------------------------------------
(* Further claims about the main loop, checked under Spec *)

\* the screen positions of the centers of the given shape candidates
CentersOf(boxes) ==
    [i \in 1..Len(boxes) |->
        <<RegionLeft + boxes[i].box[1] + boxes[i].box[3] \div 2,
          RegionTop + boxes[i].box[2] + boxes[i].box[4] \div 2>>]

\* C16 (as claimed): the fail-safe fires in an iteration only if the box
\* pipeline took no input action, targeted click or fail-safe firing, during
\* the last_no_detection_delay of clock time before it; when it fires it
\* clicks the center of every shape candidate of the iteration and restarts
\* the timer.
C16_FailSafeAfterIdleDelay ==
    cycle.kind = "fail_safe" =>
        /\ last_click_at = -1 \/ cycle.at - last_click_at > LastNoDetectionDelay
        /\ fail_safe_at[1] = -1 \/ cycle.at - fail_safe_at[1] > LastNoDetectionDelay
        /\ cycle.clicks = CentersOf(cycle.boxes)
        /\ last_no_detection = cycle.at

\* C19: went_to_none becomes true only in an iteration that took a targeted
\* click; an iteration that reaches the box pipeline with went_to_none true
\* skips the numeral template detection and still runs the shape detection;
\* went_to_none stays true as long as that detection finds a candidate and
\* becomes false in the first such iteration that finds none, which also
\* restarts the no-detection timer; nothing else clears it.
C19_BackOff ==
    [][/\ (~went_to_none /\ went_to_none') =>
              (pc_main = "cycle" /\ cycle'.kind = "clicked" /\ cycle'.clicks # <<>>)
       /\ (pc_main = "cycle" /\ cycle'.box_ran /\ went_to_none) =>
              /\ ~cycle'.numerals_ran
              /\ cycle'.shapes_ran
              /\ went_to_none' = (cycle'.boxes # <<>>)
              /\ ~went_to_none' =>
                     (cycle'.kind = "no_boxes" /\ last_no_detection' = now)
       /\ (went_to_none /\ ~went_to_none') =>
              (pc_main = "cycle" /\ cycle'.box_ran)]_vars

\* C19 witness: after a targeted click an iteration skipped the numeral
\* detection, found no shape candidate, cleared went_to_none and restarted the
\* timer.
C19_Witness ==
    /\ cycle.kind = "no_boxes"
    /\ ~cycle.numerals_ran
    /\ cycle.shapes_ran
    /\ ~went_to_none
    /\ last_click_at # -1
    /\ last_no_detection = cycle.at
    /\ last_no_detection > 0

----------------------------------------------------------------------------
(* The liveness of the fail-safe, checked under SpecFair *)

\* the last iteration fired the fail-safe
Fired == cycle.kind = "fail_safe"

\* the last iteration reached the test of line 520 and found the delay not
\* yet over: it waits for the clock
Waiting == cycle.kind = "no_action"

\* the loop is unpaused and its last iteration, if it has ended, had its
\* frames, found the bar recognizer inactive, was shown a shape candidate and
\* took no targeted click
Shown ==
    /\ ~pause
    /\ cycle.kind \in {"none", "no_detections", "no_action", "fail_safe"}
    /\ cycle.kind # "none" => cycle.candidates

\* the same, and the iteration had numeral detections or found went_to_none
\* set, so that it looked for the shape candidates
ShownAndLookedAt ==
    /\ Shown
    /\ cycle.kind # "none" => cycle.shapes_ran

\* C17 (as claimed): if from some iteration on the loop is unpaused, frames
\* are available, the bar recognizer is inactive, every frame shows a shape
\* candidate and no targeted click is taken, the fail-safe eventually fires;
\* the advancing clock is allowed for by counting an iteration that only
\* waits for the delay to pass as on its way to firing.
C17_FailSafeEventually == []([]Shown => <>(Fired \/ Waiting))

\* C17 (amended): if from some iteration on the loop is unpaused, frames are
\* available, the bar recognizer is inactive, every iteration has numeral
\* detections or finds went_to_none set and finds a shape candidate, and no
\* targeted click is taken, then once more than last_no_detection_delay has
\* passed on the clock since the timer was restarted the fail-safe fires.
C17_FailSafeOnceDue ==
    []((now - last_no_detection > LastNoDetectionDelay /\ []ShownAndLookedAt)
          => <>Fired)

\* C17 witness: the fail-safe fired in an iteration that detected a numeral,
\* was shown shape candidates and could click no target.
C17_Witness ==
    /\ Fired
    /\ ShownAndLookedAt
    /\ cycle.numerals_ran
    /\ cycle.boxes # <<>>
    /\ BoxNumber[1] # None
    /\ last_no_detection = cycle.at

----------------------------------------------------------------------------
(* The recognizer's fields between run() calls, checked under SpecBar *)

\* C21: after every run() call, and before the first, state is RESET or
\* FOUND; INTERCEPTION is entered only by a call that presses a key and leaves
\* it, so no call starts in INTERCEPTION and the branch of lines 215-216
\* (INTERCEPTION without a number) is never taken; in RESET starting_area and
\* number are 0; in FOUND starting_area is above 0; number is one of 0..3.
C21_FieldsBetweenCalls ==
    /\ state \in {RESET, FOUND}
    /\ state = RESET => (starting_area = 0 /\ number = 0)
    /\ state = FOUND => starting_area > 0
    /\ number \in 0..NumTemplates
    /\ bar_call.pre.state # INTERCEPTION
    /\ bar_call.chain_state = INTERCEPTION =>
           (bar_call.number_mid # 0 /\ bar_call.keys # <<>>)

\* C21 witness: a call made in FOUND on a frame that shows the bar left the
\* state FOUND with the number 3 stored.
C21_Witness ==
    /\ bar_call.called
    /\ bar_call.pre.state = FOUND
    /\ bar_call.area > 0
    /\ state = FOUND
    /\ starting_area > 0
    /\ number = 3

----------------------------------------------------------------------------
(* The pause flag and the two tasks that emit inputs, checked under Spec *)

\* a step in which the main loop presses a key or clicks
MainEmits ==
    /\ cycle' # cycle
    /\ cycle'.clicks # <<>> \/ bar_call'.keys # <<>>

\* a step in which handle_press_e presses the key: the first press, counted
\* in e_press_count, or the second
PressEEmits ==
    \/ e_press_count' # e_press_count
    \/ pc_e = "second" /\ pc_e' # "second"

\* C22: under any interleaving of the pause toggle, handle_press_e and the
\* main loop, a task goes past its reading of the pause flag only when the
\* flag is false at that moment, and it emits inputs only inside an iteration
\* that read the flag false; so once the flag is true and stays true each
\* task emits at most what is left of the one iteration it had started, the
\* main loop that cycle's key or clicks and handle_press_e that iteration's
\* double press, and nothing after it.
C22_NoInputOncePaused ==
    [][/\ (pc_main = "top" /\ pc_main' # "top") => ~pause
       /\ (pc_e = "top" /\ pc_e' # "top") => ~pause
       /\ MainEmits => (pc_main = "cycle" /\ pc_main' = "top" /\ ~main_read_pause)
       /\ PressEEmits => (pc_e # "top" /\ ~e_read_pause)
       /\ (pause /\ main_read_pause' # main_read_pause) => main_read_pause'
       /\ (pause /\ e_read_pause' # e_read_pause) => e_read_pause']_vars

\* C22 witness: the flag is true, the main loop has ended an iteration that
\* read it false with a targeted click, and handle_press_e, which read it
\* false too, is between the two presses of its double press.
C22_Witness ==
    /\ pause
    /\ cycle.kind = "clicked"
    /\ ~main_read_pause
    /\ pc_main = "top"
    /\ pc_e = "second"
    /\ ~e_read_pause

====
